---- MODULE Spec2Model ----
(***************************************************************************)
(* Model of @pestras/micro (src/index.ts): the Micro class of one node     *)
(* process - the start() sequence, exit(), the process-level signal and    *)
(* exception handlers, and the health-state loop (_updateHealthState).     *)
(*                                                                         *)
(* A node process runs one piece of synchronous code at a time.  start()   *)
(* is cut at its awaits: the position of start() is pc, and callbacks of   *)
(* the event loop (signals, timers, write callbacks, settled promises) run *)
(* only while no synchronous code is running (AtEventLoop).                *)
(*                                                                         *)
(* Outside that process: the health-check CLI (src/bin/hc.ts), which reads *)
(* the health file, and the workers of a cluster, which exchange envelopes *)
(* through the master.                                                     *)
(***************************************************************************)
EXTENDS Integers, Sequences, FiniteSets, TLC

\* Bounds of the model.
MaxPlugins == 2        \* plugin instances that may be registered in Spec
MaxSubs == 2           \* subservice classes that may be passed to start()
MaxExits == 2          \* calls of Micro.exit() in one process lifetime
MaxThrowAt == 1        \* an onExit that throws is among the first MaxThrowAt hooks of a call
HealthPlugins == 1     \* plugins registered in the initial states of HealthSpec
HealthSubs == 1        \* subservices running in the initial states of HealthSpec
DispatchPlugins == 1   \* plugins registered in the initial states of DispatchSpec
DispatchSubs == 2      \* subservices running in the initial states of DispatchSpec
PluginPool == 3        \* plugin instances the program may register in PluginSpec
ClusterWorkers == 3    \* workers running in ClusterSpec
MaxChannel == 2        \* envelopes on their way to the master at a time
MaxInbox == 1          \* envelopes delivered to a worker and not yet received by it

VARIABLES
    status,              \* module-level status (MICRO_STATUS)
    serviceConfig,       \* module-level serviceConfig, set by @SERVICE
    isMaster,            \* cluster.isMaster of this process
    _plugins,            \* Micro._plugins
    _service,            \* Micro._service
    _subServicesList,    \* Micro._subServicesList
    _lastHealthState,    \* Micro._lastHealthState
    _isHealthy,          \* Micro._isHealthy
    health,              \* healthy / ready / live fields of every unit
    hooks,               \* units that define the optional lifecycle hooks
    handlers,            \* which of onUnhandledException / onUnhandledRejection the service defines
    pc,                  \* position of start()
    idx,                 \* index of the for-of loop start() is in
    proc,                \* "running", "exited" (process.exit) or "killed" (default signal action)
    exitCode,            \* code the process exited with
    exitArgs,            \* <<code, signal>> of the last call of exit()
    exits,               \* number of calls of exit()
    exitTrace,           \* units whose onExit was invoked, in order
    hookThrew,           \* an onExit threw during the last turn of the event loop
    event,               \* the event the listeners ran for in the last turn (<<>>: none)
    lastCalls,           \* <<unit, method, argument>> of the methods the listeners invoked in the last turn
    listeners,           \* listeners start() has installed on process / process.stdin
    initState,           \* per unit: what its init / onInit did
    failedAt,            \* the phase whose synchronous throw rejected start()
    readyTrace,          \* units whose onReady was invoked, in order
    workersManager,      \* a WorkersManager was constructed
    processMsgsListners, \* module-level processMsgsListners, filled by @WORKER_MSG
    timers,              \* pending setTimeout(Micro._updateHealthState, ...)
    delay,               \* delay of the timeout scheduled last
    writes,              \* writeFile calls whose callback has not run yet
    writing,             \* data of the writeFile call in flight
    file,                \* content of the __health file (<<>>: no file)
    newState,            \* newState of the last run of _updateHealthState
    ticked,              \* _updateHealthState has run at least once
    lastWritten,         \* history: the snapshot of the last successful write
    cwd,                 \* process.cwd() of the service process, as path segments
    cli,                 \* the last run of the health-check CLI (<<>>: none)
    cluster              \* the workers of a cluster: envelopes sent, delivered, the last relay

programVars == <<serviceConfig, isMaster, handlers, processMsgsListners>>
\* What no step of the service process writes: its configuration, its working
\* directory, the runs of the health-check CLI and the other processes of a
\* cluster.
cfgVars == <<programVars, cwd, cli, cluster>>
unitVars == <<_plugins, _service, _subServicesList, hooks>>
exitVars == <<status, proc, exitCode, exitArgs, exits, exitTrace>>
turnVars == <<hookThrew, event, lastCalls>>
startVars == <<pc, idx, initState, failedAt, readyTrace>>
lifeVars == <<cfgVars, unitVars, exitVars, startVars, listeners, workersManager>>
healthVars == <<_lastHealthState, _isHealthy, health, timers, delay, writes, writing,
                file, newState, ticked, lastWritten>>
vars == <<lifeVars, turnVars, healthVars>>

-----------------------------------------------------------------------------
\* Units: plugin instances, the main service, subservice instances.

Larger(a, b) == IF a > b THEN a ELSE b

PluginUnits ==
    {<<"plugin", i>> : i \in 1..Larger(Larger(MaxPlugins, PluginPool),
                                        Larger(HealthPlugins, DispatchPlugins))}
SubUnits == {<<"sub", i>> : i \in 1..Larger(MaxSubs, Larger(HealthSubs, DispatchSubs))}
ServiceUnit == <<"service", 0>>
Undefined == <<"undefined", 0>>
Units == PluginUnits \cup {ServiceUnit} \cup SubUnits

Range(s) == {s[i] : i \in 1..Len(s)}

\* new subService() for the first n classes of the subServices argument
SubInstances(n) == [i \in 1..n |-> <<"sub", i>>]
PluginInstances(n) == [i \in 1..n |-> <<"plugin", i>>]

Signals == {"SIGTERM", "SIGHUP", "SIGINT"}

\* A health field is "true", "false" or left "undefined".
AllUndefined == [healthy |-> "undefined", ready |-> "undefined", live |-> "undefined"]
PluginDefault == [healthy |-> "false", ready |-> "false", live |-> "false"]
\* The values a unit's three fields take in HealthSpec.
UnitHealth ==
    { AllUndefined, PluginDefault,
      [healthy |-> "true", ready |-> "true", live |-> "true"],
      [healthy |-> "true", ready |-> "false", live |-> "undefined"],
      [healthy |-> "false", ready |-> "true", live |-> "true"],
      [healthy |-> "undefined", ready |-> "true", live |-> "false"] }

Snapshot(h, r, l) == [healthy |-> h, ready |-> r, live |-> l]

-----------------------------------------------------------------------------
\* _updateHealthState: the aggregate

\* newState.f = newState.f ? (unit.f === undefined ? true : unit.f) : false
Flag_UndefinedFails(acc, v) == IF acc THEN v = "true" ELSE FALSE
Flag(acc, v) == IF acc THEN (IF v = "undefined" THEN TRUE ELSE v = "true") ELSE FALSE

Merge(st, u) ==
    [healthy |-> Flag(st.healthy, health[u].healthy),
     ready   |-> Flag(st.ready, health[u].ready),
     live    |-> Flag(st.live, health[u].live)]

RECURSIVE MergeAll(_, _)
MergeAll(st, us) ==
    IF us = <<>> THEN st ELSE MergeAll(Merge(st, Head(us)), Tail(us))

ComputeNewState ==
    MergeAll(Merge(MergeAll(Snapshot(TRUE, TRUE, TRUE), _plugins), _service),
             _subServicesList)

Differs(a, b) == a.healthy # b.healthy \/ a.ready # b.ready \/ a.live # b.live

\* JSON.stringify of a HealthState object: its members in insertion order
JSON_stringify(st) == <<<<"healthy", st.healthy>>, <<"ready", st.ready>>, <<"live", st.live>>>>

-----------------------------------------------------------------------------
\* The event loop

SuspendedPcs == {"idle", "master", "pluginAwait", "serviceAwait", "subAwait", "done", "rejected"}

\* The process is alive and no synchronous code of start() is running.
AtEventLoop == proc = "running" /\ pc \in SuspendedPcs

\* A turn of the event loop in which no listener of the process runs.
QuietTurn == hookThrew' = FALSE /\ event' = <<>> /\ lastCalls' = <<>>

-----------------------------------------------------------------------------
\* The health loop

\* setTimeout callback: Micro._updateHealthState
UpdateHealthState_Rearm ==
    /\ AtEventLoop
    /\ timers > 0
    /\ newState' = ComputeNewState
    /\ ticked' = TRUE
    /\ IF Differs(newState', _lastHealthState)
       THEN /\ _isHealthy' = (_lastHealthState.healthy /\ _lastHealthState.ready
                                /\ _lastHealthState.live)
            /\ writes' = writes + 1
            /\ writing' = JSON_stringify(newState')
            /\ timers' = timers
       ELSE /\ timers' = timers - 1
            /\ UNCHANGED <<_isHealthy, writes, writing>>
    /\ QuietTurn
    /\ UNCHANGED <<_lastHealthState, health, delay, file, lastWritten, lifeVars>>

UpdateHealthState ==
    /\ AtEventLoop
    /\ timers > 0
    /\ timers' = timers - 1
    /\ newState' = ComputeNewState
    /\ ticked' = TRUE
    /\ IF Differs(newState', _lastHealthState)
       THEN /\ _isHealthy' = (_lastHealthState.healthy /\ _lastHealthState.ready
                                /\ _lastHealthState.live)
            /\ writes' = writes + 1
            /\ writing' = JSON_stringify(newState')
       ELSE UNCHANGED <<_isHealthy, writes, writing>>
    /\ QuietTurn
    /\ UNCHANGED <<_lastHealthState, health, delay, file, lastWritten, lifeVars>>

\* callback of writeFile: (e) => { if (e) log; setTimeout(..., _isHealthy ? 10000 : 1000) }
WriteCallback(e) ==
    /\ AtEventLoop
    /\ writes > 0
    /\ writes' = writes - 1
    /\ IF e THEN UNCHANGED <<file, lastWritten>>
            ELSE /\ file' = <<writing>>
                 /\ lastWritten' = newState
    /\ timers' = timers + 1
    /\ delay' = IF _isHealthy THEN 10000 ELSE 1000
    /\ QuietTurn
    /\ UNCHANGED <<_lastHealthState, _isHealthy, health, writing, newState, ticked, lifeVars>>

\* A unit assigns its healthy / ready / live fields.
SetHealth(u, h) ==
    /\ AtEventLoop
    /\ u \in Range(_plugins) \cup {_service} \cup Range(_subServicesList)
    /\ health[u] # h
    /\ health' = [health EXCEPT ![u] = h]
    /\ QuietTurn
    /\ UNCHANGED <<_lastHealthState, _isHealthy, timers, delay, writes, writing, file,
                   newState, ticked, lastWritten, lifeVars>>

-----------------------------------------------------------------------------
\* The health file and the health-check CLI (src/bin/hc.ts)

\* Directories are sequences of path segments below the root.
AppDir == <<"app">>
\* A path: absolute or relative, and its segments
AbsPath(segs) == [abs |-> TRUE, segs |-> segs]
RelPath(segs) == [abs |-> FALSE, segs |-> segs]

\* path.join(dir, name); join("", name) is the relative path name
join(dir, name) == [abs |-> dir.abs, segs |-> Append(dir.segs, name)]

\* The file a path names for a process whose working directory is dir
Resolve(dir, path) == IF path.abs THEN path.segs ELSE dir \o path.segs

\* writeFile(join(process.cwd(), "__health"), ...): the file the service writes
WrittenFile == Resolve(cwd, join(AbsPath(cwd), "__health"))

\* Texts are sequences of tokens: the text of a JSON object is the sequence of
\* its members <<key, value>> (JSON_stringify), the empty text has no token.
EmptyText == <<>>
NullText == <<<<"null">>>>
TruncatedText == <<<<"healthy">>>>

\* JSON.parse(text): an object, null, or a SyntaxError
JSON_parse(text) ==
    IF text = NullText
    THEN [threw |-> FALSE, kind |-> "null", members |-> <<>>]
    ELSE IF text # EmptyText /\ \A i \in 1..Len(text) : Len(text[i]) = 2
         THEN [threw |-> FALSE, kind |-> "object", members |-> text]
         ELSE [threw |-> TRUE, kind |-> "none", members |-> <<>>]

\* Properties every object inherits from Object.prototype under lower-case names
Inherited == {"constructor", "__proto__"}

\* Boolean(state[check]) for a parsed object
Truthy(members, check) ==
    IF \E i \in 1..Len(members) : members[i][1] = check
    THEN \E i \in 1..Len(members) : members[i][1] = check /\ members[i][2]
    ELSE check \in Inherited

\* String.prototype.toLowerCase on the arguments of the model
toLowerCase(str) ==
    CASE str = "LIVE" -> "live"
      [] str = "Healthy" -> "healthy"
      [] OTHER -> str

\* let check = (process.argv[2] || "healthy").toLowerCase(); "": no argument
Check(arg) == toLowerCase(IF arg = "" THEN "healthy" ELSE arg)

\* The body of the try statement and its catch: the exit code of the CLI for
\* what readFileSync did, read = [err, data]
ExitCodeOf(check, read) ==
    IF read.err THEN 1
    ELSE IF read.data = EmptyText THEN 1
    ELSE LET state == JSON_parse(read.data)
         IN  IF state.threw THEN 1
             ELSE IF state.kind = "null" THEN 1
             ELSE IF Truthy(state.members, check) THEN 0 ELSE 1

ReadError == [err |-> TRUE, data |-> EmptyText]
ReadOf(text) == [err |-> FALSE, data |-> text]

\* Files other programs left in the directories the CLI may look into
ForeignTexts ==
    { EmptyText, NullText, TruncatedText,
      <<<<"healthy", TRUE>>>>,
      <<<<"healthy", TRUE>>, <<"ready", FALSE>>, <<"live", TRUE>>>> }

\* What readFileSync(path, "utf-8") may do: ENOENT or EACCES, the content of the
\* file the service writes (empty or cut short while a writeFile is in flight),
\* the content of a foreign file or ENOENT elsewhere.
Reads(path) ==
    {ReadError}
      \cup (IF path = WrittenFile
            THEN {ReadOf(file[i]) : i \in 1..Len(file)}
                   \cup (IF writes > 0 THEN {ReadOf(EmptyText), ReadOf(TruncatedText)} ELSE {})
            ELSE {ReadOf(text) : text \in ForeignTexts})

\* One run of the CLI with argv[2] = arg, HEALTH_CHECK_DIR = dir ("" when unset:
\* the relative path with no segment) in the working directory cliCwd.
HealthCheck(arg, dir, cliCwd) ==
    LET healthFilePath == join(dir, "__health")
        path == Resolve(cliCwd, healthFilePath)
    IN  /\ \E read \in Reads(path) :
              cli' = [check |-> Check(arg), path |-> path, read |-> read,
                      code |-> ExitCodeOf(Check(arg), read)]
        /\ UNCHANGED <<programVars, cwd, cluster>>
        /\ UNCHANGED <<unitVars, exitVars, startVars, listeners, workersManager,
                       turnVars, healthVars>>

-----------------------------------------------------------------------------
\* Messages between the workers of a cluster

Workers == 1..ClusterWorkers
NoCluster == [channel |-> <<>>, inbox |-> <<>>, last |-> <<>>]

\* static message(msg, data = null, target = 'others'): a parameter takes its
\* default when the argument is omitted ("undefined")
Envelope_TargetAll(msg, data, target) ==
    [message |-> msg,
     data    |-> IF data = "undefined" THEN "null" ELSE data,
     target  |-> IF target = "undefined" THEN "all" ELSE target]

Envelope(msg, data, target) ==
    [message |-> msg,
     data    |-> IF data = "undefined" THEN "null" ELSE data,
     target  |-> IF target = "undefined" THEN "others" ELSE target]

othersVars == <<unitVars, exitVars, startVars, listeners, workersManager, turnVars, healthVars>>

\* Worker w calls Micro.message(msg, data, target): process.send(envelope) puts
\* the envelope on the channel to the master.
message(w, msg, data, target) ==
    /\ Len(cluster.channel) < MaxChannel
    /\ cluster' = [cluster EXCEPT
                     !.channel = Append(@, [from |-> w, args |-> <<msg, data, target>>,
                                            envelope |-> Envelope(msg, data, target)])]
    /\ UNCHANGED <<programVars, cwd, cli, othersVars>>

\* The workers the master relays an envelope of worker w to
Recipients(w, envelope) == IF envelope.target = "all" THEN Workers ELSE Workers \ {w}

\* The master relays the envelope it received first.
Broadcast ==
    /\ cluster.channel # <<>>
    /\ LET sent == Head(cluster.channel)
           to == Recipients(sent.from, sent.envelope)
       IN  /\ \A w \in to : Len(cluster.inbox[w]) < MaxInbox
           /\ cluster' = [channel |-> Tail(cluster.channel),
                          inbox |-> [w \in Workers |->
                                       IF w \in to
                                       THEN Append(cluster.inbox[w], sent.envelope)
                                       ELSE cluster.inbox[w]],
                          last |-> <<sent.from, sent.envelope>>]
    /\ UNCHANGED <<programVars, cwd, cli, othersVars>>

\* The 'message' event of worker w fires for the envelope delivered first.
Receive(w) ==
    /\ cluster.inbox[w] # <<>>
    /\ cluster' = [cluster EXCEPT !.inbox[w] = Tail(@)]
    /\ UNCHANGED <<programVars, cwd, cli, othersVars>>

-----------------------------------------------------------------------------
\* Micro.plugin

\* Micro.plugin(plugin); h: the instance defines the optional hooks
Plugin_NoIncludes(p, h) ==
    /\ AtEventLoop
    /\ _plugins' = Append(_plugins, p)
    /\ hooks' = IF h /\ p \notin Range(_plugins) THEN hooks \cup {p} ELSE hooks
    /\ QuietTurn
    /\ UNCHANGED <<_service, _subServicesList, cfgVars, exitVars, startVars, listeners,
                   workersManager, healthVars>>

Plugin(p, h) ==
    /\ AtEventLoop
    /\ _plugins' = IF p \in Range(_plugins) THEN _plugins ELSE Append(_plugins, p)
    /\ hooks' = IF h /\ p \notin Range(_plugins) THEN hooks \cup {p} ELSE hooks
    /\ QuietTurn
    /\ UNCHANGED <<_service, _subServicesList, cfgVars, exitVars, startVars, listeners,
                   workersManager, healthVars>>

-----------------------------------------------------------------------------
\* Micro.exit and the process-level listeners.  exit() and the listeners that
\* call it run synchronously, one inside the other, so they are operators on
\* the variables exit() writes; x.threw: the call ended by an exception.

Current ==
    [status |-> status, proc |-> proc, exitCode |-> exitCode, exitArgs |-> exitArgs,
     exits |-> exits, exitTrace |-> exitTrace, threw |-> FALSE, hookThrew |-> FALSE,
     event |-> <<>>, calls |-> <<>>]

\* The listeners of the process start to run for the event e.
Event(e) == [Current EXCEPT !.event = e]

Becomes(x) ==
    /\ x.exits <= MaxExits
    /\ status' = x.status
    /\ proc' = x.proc
    /\ exitCode' = x.exitCode
    /\ exitArgs' = x.exitArgs
    /\ exits' = x.exits
    /\ exitTrace' = x.exitTrace
    /\ hookThrew' = x.hookThrew
    /\ event' = x.event
    /\ lastCalls' = x.calls

\* The units exit() visits, in its order: plugins, the service, subservices.
\* With Micro._service undefined line 229 raises a TypeError after the plugins.
ExitOrder ==
    _plugins \o (IF _service = Undefined THEN <<>> ELSE <<_service>> \o _subServicesList)

IsHooked(u) == u \in hooks
ExitHooks == SelectSeq(ExitOrder, IsHooked)

\* k: the position in ExitHooks of the onExit that throws (0: none throws)
ThrowAt == 0..(IF Len(ExitHooks) < MaxThrowAt THEN Len(ExitHooks) ELSE MaxThrowAt)

\* exit(code, signal)
exit_CatchesHook(x, code, signal, k) ==
    LET threw == _service = Undefined
    IN  [status    |-> "EXIT",
         proc      |-> IF threw THEN x.proc ELSE "exited",
         exitCode  |-> IF threw THEN x.exitCode ELSE code,
         exitArgs  |-> <<code, signal>>,
         exits     |-> x.exits + 1,
         exitTrace |-> x.exitTrace \o ExitHooks,
         threw     |-> threw,
         hookThrew |-> x.hookThrew \/ k > 0,
         event     |-> x.event,
         calls     |-> x.calls \o [i \in 1..Len(ExitHooks) |->
                                       <<ExitHooks[i], "onExit", <<code, signal>>>>]]

exit(x, code, signal, k) ==
    LET called == IF k = 0 THEN ExitHooks ELSE SubSeq(ExitHooks, 1, k)
        threw == k > 0 \/ _service = Undefined
    IN  [status    |-> "EXIT",
         proc      |-> IF threw THEN x.proc ELSE "exited",
         exitCode  |-> IF threw THEN x.exitCode ELSE code,
         exitArgs  |-> <<code, signal>>,
         exits     |-> x.exits + 1,
         exitTrace |-> x.exitTrace \o called,
         threw     |-> threw,
         hookThrew |-> x.hookThrew \/ k > 0,
         event     |-> x.event,
         calls     |-> x.calls \o [i \in 1..Len(called) |->
                                       <<called[i], "onExit", <<code, signal>>>>]]

\* process.on('uncaughtException'): an exception thrown by exit() inside the
\* listener ends the process with code 7.
uncaughtException_IgnoresHandler(x, k) ==
    IF serviceConfig.exitOnUnhandledException
    THEN LET r == exit(x, 1, "SIGTERM", k)
         IN  IF r.threw
             THEN [r EXCEPT !.proc = "exited", !.exitCode = 7, !.threw = FALSE]
             ELSE r
    ELSE [x EXCEPT !.threw = FALSE]

uncaughtException(x, k) ==
    IF _service # Undefined /\ "onUnhandledException" \in handlers
    THEN [x EXCEPT !.threw = FALSE,
                   !.calls = Append(@, <<_service, "onUnhandledException", "err">>)]
    ELSE IF serviceConfig.exitOnUnhandledException
         THEN LET r == exit(x, 1, "SIGTERM", k)
              IN  IF r.threw
                  THEN [r EXCEPT !.proc = "exited", !.exitCode = 7, !.threw = FALSE]
                  ELSE r
         ELSE [x EXCEPT !.threw = FALSE]

\* process.on('unhandledRejection')
unhandledRejection(x, k) ==
    IF _service # Undefined /\ "onUnhandledRejection" \in handlers
    THEN [x EXCEPT !.calls = Append(@, <<_service, "onUnhandledRejection", "reason">>)]
    ELSE IF serviceConfig.exitOnInhandledRejection
         THEN exit(x, 1, "SIGTERM", k)
         ELSE x

\* An exception that leaves a callback, x.threw, is an uncaught exception.
Thrown(x) ==
    IF x.threw
    THEN \E k \in ThrowAt : Becomes(uncaughtException(x, k))
    ELSE Becomes(x)

\* A callback that calls exit()
ExitFromCallback(e, code, signal) ==
    \E k \in ThrowAt : Thrown(exit(Event(e), code, signal, k))

\* The 'unhandledRejection' listener runs.
Rejection ==
    \E k \in ThrowAt : Thrown(unhandledRejection(Event(<<"unhandledRejection">>), k))

\* Micro.exit called by the program from a callback
ExitCall(code, signal) ==
    /\ AtEventLoop
    /\ ExitFromCallback(<<"exit", code, signal>>, code, signal)
    /\ UNCHANGED <<cfgVars, unitVars, startVars, listeners, workersManager, healthVars>>

\* SIGTERM / SIGHUP / SIGINT delivered to the process: (signal) => Micro.exit(0, signal)
\* once start() has installed the listeners, the default action before
OnSignal_DefaultSignal(signal) ==
    /\ AtEventLoop
    /\ IF "signals" \in listeners
       THEN ExitFromCallback(<<"signal", signal>>, 0, "SIGTERM")
       ELSE Becomes([Event(<<"signal", signal>>) EXCEPT !.proc = "killed"])
    /\ UNCHANGED <<cfgVars, unitVars, startVars, listeners, workersManager, healthVars>>

OnSignal(signal) ==
    /\ AtEventLoop
    /\ IF "signals" \in listeners
       THEN ExitFromCallback(<<"signal", signal>>, 0, signal)
       ELSE Becomes([Event(<<"signal", signal>>) EXCEPT !.proc = "killed"])
    /\ UNCHANGED <<cfgVars, unitVars, startVars, listeners, workersManager, healthVars>>

\* A callback of the program throws.
OnUncaughtException ==
    /\ AtEventLoop
    /\ \E k \in ThrowAt : Becomes(uncaughtException(Event(<<"uncaughtException">>), k))
    /\ UNCHANGED <<cfgVars, unitVars, startVars, listeners, workersManager, healthVars>>

\* A promise of the program is rejected and has no handler.
OnUnhandledRejection ==
    /\ AtEventLoop
    /\ Rejection
    /\ UNCHANGED <<cfgVars, unitVars, startVars, listeners, workersManager, healthVars>>

-----------------------------------------------------------------------------
\* Worker messages and stdin: the listeners start() installs

\* The constructor of an instance.  Each subservice class is constructed once.
ClassOf(u) == IF u = ServiceUnit THEN <<"Service", 0>> ELSE <<"Sub", u[2]>>

\* The functions an instance has under the keys the bindings name.
MethodsOf(u) ==
    CASE u = ServiceUnit -> {"onJob"}
      [] u \in SubUnits -> {"onTask"}
      [] OTHER -> {}

\* Micro.getCurrentService(constructor); Undefined stands for null
getCurrentService_ServiceOnly(constructor) ==
    IF _service # Undefined /\ ClassOf(_service) = constructor THEN _service ELSE Undefined

getCurrentService(constructor) ==
    IF _service # Undefined /\ ClassOf(_service) = constructor
    THEN _service
    ELSE IF \E i \in 1..Len(_subServicesList) : ClassOf(_subServicesList[i]) = constructor
         THEN LET first == CHOOSE i \in 1..Len(_subServicesList) :
                              /\ ClassOf(_subServicesList[i]) = constructor
                              /\ \A j \in 1..(i - 1) : ClassOf(_subServicesList[j]) # constructor
              IN  _subServicesList[first]
         ELSE Undefined

\* processMsgsListners[name]
IsBound(name) == \E b \in processMsgsListners : b.message = name
Options(name) == CHOOSE b \in processMsgsListners : b.message = name

\* The units a stdin event is forwarded to, in order: plugins, the service, subservices.
StdinHooks_ServiceFirst == SelectSeq(<<_service>> \o _plugins \o _subServicesList, IsHooked)
StdinHooks == SelectSeq(_plugins \o <<_service>> \o _subServicesList, IsHooked)

\* k: the position of the hook that throws among those called (0: none throws)
ThrowIn(s) == 0..(IF Len(s) < MaxThrowAt THEN Len(s) ELSE MaxThrowAt)

\* The hooks of s are called with arg one after the other; the k-th throws.
Forward(x, s, method, arg, k) ==
    LET called == IF k = 0 THEN s ELSE SubSeq(s, 1, k)
    IN  [x EXCEPT !.calls = @ \o [i \in 1..Len(called) |-> <<called[i], method, arg>>],
                  !.threw = k > 0]

\* (msg) => { if (msg.message === 'publish') return;
\*            let options = processMsgsListners[msg.message];
\*            let currService = Micro.getCurrentService(options.service) || Micro._service;
\*            if (options.key && typeof currService[options.key] === "function")
\*              currService[options.key](msg.data) }
\* Reading options.service of an unbound name raises a TypeError.
MessageListener_PublishDispatched(x, name, data, handlerThrows) ==
    IF ~IsBound(name)
    THEN [x EXCEPT !.threw = TRUE]
    ELSE LET options == Options(name)
             found == getCurrentService(options.service)
             currService == IF found # Undefined THEN found ELSE _service
         IN  IF options.key \in MethodsOf(currService)
             THEN [x EXCEPT !.calls = Append(@, <<currService, options.key, data>>),
                            !.threw = handlerThrows]
             ELSE x

MessageListener(x, name, data, handlerThrows) ==
    IF name = "publish"
    THEN x
    ELSE IF ~IsBound(name)
    THEN [x EXCEPT !.threw = TRUE]
    ELSE LET options == Options(name)
             found == getCurrentService(options.service)
             currService == IF found # Undefined THEN found ELSE _service
         IN  IF options.key \in MethodsOf(currService)
             THEN [x EXCEPT !.calls = Append(@, <<currService, options.key, data>>),
                            !.threw = handlerThrows]
             ELSE x

eventFrame == <<cfgVars, unitVars, startVars, listeners, workersManager, healthVars>>

\* A message {message: name, data} reaches the process; without a 'message'
\* listener it is lost.
OnMessage_ListenerAtLoad(name, data, handlerThrows) ==
    /\ AtEventLoop
    /\ Thrown(MessageListener(Event(<<"message", name, data>>), name, data, handlerThrows))
    /\ UNCHANGED eventFrame

OnMessage(name, data, handlerThrows) ==
    /\ AtEventLoop
    /\ IF "message" \in listeners
       THEN Thrown(MessageListener(Event(<<"message", name, data>>), name, data, handlerThrows))
       ELSE ~handlerThrows /\ UNCHANGED <<exitVars, turnVars>>
    /\ UNCHANGED eventFrame

\* A chunk is written to the stdin of the process.  Without a 'data' listener
\* the stream does not flow and nothing runs.
\* process.stdin.on('data', chunk => { forward to plugins, the service, subservices })
OnStdin(chunk) ==
    /\ AtEventLoop
    /\ IF "stdin" \in listeners
       THEN \E k \in ThrowIn(StdinHooks) :
               Thrown(Forward(Event(<<"stdin", chunk>>), StdinHooks, "onStdin", chunk, k))
       ELSE UNCHANGED <<exitVars, turnVars>>
    /\ UNCHANGED eventFrame

\* .on('end', () => { onStdinEnd of plugins, the service, subservices })
OnStdinEnd ==
    /\ AtEventLoop
    /\ IF "stdin" \in listeners
       THEN \E k \in ThrowIn(StdinHooks) :
               Thrown(Forward(Event(<<"end">>), StdinHooks, "onStdinEnd", "none", k))
       ELSE UNCHANGED <<exitVars, turnVars>>
    /\ UNCHANGED eventFrame

-----------------------------------------------------------------------------
\* Micro.start

\* A hook throws inside start(): the promise start() returned is rejected.  Either
\* the caller handles the rejection or the 'unhandledRejection' listener runs.
Rejected(phase) ==
    /\ pc' = "rejected"
    /\ failedAt' = phase
    /\ \/ UNCHANGED <<exitVars, turnVars>>
       \/ Rejection

StartRejected(phase) == Rejected(phase) /\ UNCHANGED readyTrace

Continue(contPc, contIdx) ==
    /\ pc' = contPc
    /\ idx' = contIdx
    /\ UNCHANGED <<failedAt, readyTrace, exitVars, turnVars>>

\* let promise = unit.init(); if (promise && typeof promise.then === 'function')
\*   try { await promise } catch (error) { log }
\* The call returns a value that is no promise, throws, or returns a promise.
\* A throw of the call is outside the try block.
CallInit_NoAwait(u, awaitPc, contPc, contIdx) ==
    \E out \in {"returned", "threw", "promise"} :
        CASE out = "returned" ->
               /\ initState' = [initState EXCEPT ![u] = "settled"]
               /\ Continue(contPc, contIdx)
          [] out = "threw" ->
               /\ initState' = [initState EXCEPT ![u] = "threw"]
               /\ StartRejected("init")
               /\ UNCHANGED idx
          [] out = "promise" ->
               /\ initState' = [initState EXCEPT ![u] = "running"]
               /\ Continue(contPc, contIdx)

CallInit(u, awaitPc, contPc, contIdx) ==
    \E out \in {"returned", "threw", "promise"} :
        CASE out = "returned" ->
               /\ initState' = [initState EXCEPT ![u] = "settled"]
               /\ Continue(contPc, contIdx)
          [] out = "threw" ->
               /\ initState' = [initState EXCEPT ![u] = "threw"]
               /\ StartRejected("init")
               /\ UNCHANGED idx
          [] out = "promise" ->
               /\ initState' = [initState EXCEPT ![u] = "running"]
               /\ Continue(awaitPc, idx)

\* The awaited promise is fulfilled or rejected; a rejection is caught and
\* logged, and start() goes on after the try statement either way.
Settled_AfterExit(u, awaitPc, contPc, contIdx, ok) ==
    /\ pc = awaitPc
    /\ pc \in SuspendedPcs
    /\ initState' = [initState EXCEPT ![u] = "settled"]
    /\ pc' = contPc
    /\ idx' = contIdx
    /\ QuietTurn
    /\ UNCHANGED <<failedAt, readyTrace, exitVars>>

Settled(u, awaitPc, contPc, contIdx, ok) ==
    /\ AtEventLoop
    /\ pc = awaitPc
    /\ initState' = [initState EXCEPT ![u] = "settled"]
    /\ pc' = contPc
    /\ idx' = contIdx
    /\ QuietTurn
    /\ UNCHANGED <<failedAt, readyTrace, exitVars>>

\* if (typeof unit.onReady === "function") unit.onReady()
CallReady(u, contPc, contIdx) ==
    IF u \in hooks
    THEN /\ readyTrace' = Append(readyTrace, u)
         /\ \E threw \in BOOLEAN :
               IF threw
               THEN Rejected("onReady") /\ UNCHANGED idx
               ELSE /\ pc' = contPc
                    /\ idx' = contIdx
                    /\ UNCHANGED <<failedAt, exitVars, turnVars>>
    ELSE Continue(contPc, contIdx)

startFrame == <<cfgVars, unitVars, listeners, workersManager, healthVars>>

Start_MasterRuns(n, hooked) ==
    /\ AtEventLoop
    /\ pc = "idle"
    /\ workersManager' = (isMaster /\ serviceConfig.workers # 0)
    /\ _service' = ServiceUnit
    /\ _subServicesList' = _subServicesList \o SubInstances(n)
    /\ hooked \subseteq {ServiceUnit} \cup Range(SubInstances(n))
    /\ hooks' = hooks \cup hooked
    /\ listeners' = listeners \cup {"signals"}
    /\ pc' = "pluginInit"
    /\ idx' = 1
    /\ QuietTurn
    /\ UNCHANGED <<_plugins, cfgVars, exitVars, initState, failedAt, readyTrace, healthVars>>

\* start(ServiceClass, subServices) up to the plugin loop; n subservice classes,
\* hooked: the instances constructed that define the optional hooks
Start(n, hooked) ==
    /\ AtEventLoop
    /\ pc = "idle"
    /\ IF isMaster /\ serviceConfig.workers # 0
       THEN /\ workersManager' = TRUE
            /\ pc' = "master"
            /\ UNCHANGED <<_service, _subServicesList, hooks, listeners, idx>>
       ELSE /\ _service' = ServiceUnit
            /\ _subServicesList' = _subServicesList \o SubInstances(n)
            /\ hooked \subseteq {ServiceUnit} \cup Range(SubInstances(n))
            /\ hooks' = hooks \cup hooked
            /\ listeners' = listeners \cup {"signals"}
            /\ pc' = "pluginInit"
            /\ idx' = 1
            /\ UNCHANGED workersManager
    /\ QuietTurn
    /\ UNCHANGED <<_plugins, cfgVars, exitVars, initState, failedAt, readyTrace, healthVars>>

\* for (let plugin of Micro._plugins) if (typeof plugin.init === 'function') ...
\* init is an abstract member of MicroPlugin: every plugin defines it.
PluginInit ==
    /\ pc = "pluginInit"
    /\ IF idx <= Len(_plugins)
       THEN CallInit(_plugins[idx], "pluginAwait", "pluginInit", idx + 1)
       ELSE Continue("serviceInit", idx) /\ UNCHANGED initState
    /\ UNCHANGED startFrame

PluginSettled(ok) ==
    /\ Settled(_plugins[idx], "pluginAwait", "pluginInit", idx + 1, ok)
    /\ UNCHANGED startFrame

\* if (typeof Micro._service.onInit === "function") ...
ServiceInit ==
    /\ pc = "serviceInit"
    /\ IF _service \in hooks
       THEN CallInit(_service, "serviceAwait", "subInit", 1)
       ELSE Continue("subInit", 1) /\ UNCHANGED initState
    /\ UNCHANGED startFrame

ServiceSettled(ok) ==
    /\ Settled(_service, "serviceAwait", "subInit", 1, ok)
    /\ UNCHANGED startFrame

\* for (let subService of Micro._subServicesList) if (typeof subService.onInit === "function") ...
SubInit ==
    /\ pc = "subInit"
    /\ IF idx <= Len(_subServicesList)
       THEN IF _subServicesList[idx] \in hooks
            THEN CallInit(_subServicesList[idx], "subAwait", "subInit", idx + 1)
            ELSE Continue("subInit", idx + 1) /\ UNCHANGED initState
       ELSE Continue("listen", idx) /\ UNCHANGED initState
    /\ UNCHANGED startFrame

SubSettled(ok) ==
    /\ Settled(_subServicesList[idx], "subAwait", "subInit", idx + 1, ok)
    /\ UNCHANGED startFrame

\* if (Object.keys(processMsgsListners).length > 0) process.on('message', ...)
MessageListen ==
    /\ pc = "listen"
    /\ listeners' = IF processMsgsListners # {} THEN listeners \cup {"message"} ELSE listeners
    /\ Continue("pluginReady", 1)
    /\ UNCHANGED <<cfgVars, unitVars, initState, workersManager, healthVars>>

\* for (let plugin of Micro._plugins) if (typeof plugin.onReady === "function") plugin.onReady()
PluginReady ==
    /\ pc = "pluginReady"
    /\ IF idx <= Len(_plugins)
       THEN CallReady(_plugins[idx], "pluginReady", idx + 1)
       ELSE Continue("setLive", idx)
    /\ UNCHANGED <<initState, startFrame>>

\* status = MICRO_STATUS.LIVE
SetLive_Skipped ==
    /\ pc = "setLive"
    /\ Continue("serviceReady", idx)
    /\ UNCHANGED <<initState, startFrame>>

SetLive ==
    /\ pc = "setLive"
    /\ status' = "LIVE"
    /\ pc' = "serviceReady"
    /\ UNCHANGED <<proc, exitCode, exitArgs, exits, exitTrace, hookThrew, event, lastCalls,
                   idx, initState, failedAt, readyTrace, startFrame>>

\* if (typeof Micro._service.onReady === 'function') Micro._service.onReady()
ServiceReady ==
    /\ pc = "serviceReady"
    /\ CallReady(_service, "subReady", 1)
    /\ UNCHANGED <<initState, startFrame>>

\* for (let subService of Micro._subServicesList) ... subService.onReady()
SubReady ==
    /\ pc = "subReady"
    /\ IF idx <= Len(_subServicesList)
       THEN CallReady(_subServicesList[idx], "subReady", idx + 1)
       ELSE Continue("stdin", idx)
    /\ UNCHANGED <<initState, startFrame>>

\* if (Micro.config.stdin) process.stdin.on('data', ...).on('end', ...)
StdinListen ==
    /\ pc = "stdin"
    /\ listeners' = IF serviceConfig.stdin THEN listeners \cup {"stdin"} ELSE listeners
    /\ Continue("health", idx)
    /\ UNCHANGED <<cfgVars, unitVars, initState, workersManager, healthVars>>

\* if (Micro.config.healthCheck) setTimeout(Micro._updateHealthState, 1000)
StartHealth ==
    /\ pc = "health"
    /\ IF serviceConfig.healthCheck
       THEN timers' = timers + 1 /\ delay' = 1000
       ELSE UNCHANGED <<timers, delay>>
    /\ Continue("done", idx)
    /\ UNCHANGED <<cfgVars, unitVars, initState, listeners, workersManager,
                   _lastHealthState, _isHealthy, health, writes, writing, file, newState,
                   ticked, lastWritten>>

-----------------------------------------------------------------------------
\* Specifications

\* serviceConfig as the SERVICE decorator builds it from @SERVICE()
DefaultConfig ==
    [workers |-> 0, stdin |-> TRUE, healthCheck |-> TRUE,
     exitOnUnhandledException |-> TRUE, exitOnInhandledRejection |-> TRUE]

\* The configurations of the model: the default, a cluster, a service with
\* stdin and health checking off, a service that stays up on errors.
Configs ==
    { DefaultConfig,
      [DefaultConfig EXCEPT !.workers = 2],
      [DefaultConfig EXCEPT !.stdin = FALSE, !.healthCheck = FALSE],
      [DefaultConfig EXCEPT !.exitOnUnhandledException = FALSE,
                            !.exitOnInhandledRejection = FALSE] }

\* @WORKER_MSG(processMsg) on a method: {key, service: target.constructor}
\* No binding, or bindings owned by the service class, by the first and the
\* second subservice class and by a class that start() does not construct, and
\* one named "publish".
BindingTables ==
    { {},
      { [message |-> "job", service |-> <<"Service", 0>>, key |-> "onJob"],
        [message |-> "task", service |-> <<"Sub", 1>>, key |-> "onTask"],
        [message |-> "report", service |-> <<"Sub", 2>>, key |-> "onTask"],
        [message |-> "alien", service |-> <<"Other", 0>>, key |-> "onJob"],
        [message |-> "publish", service |-> <<"Service", 0>>, key |-> "onJob"] } }

\* The messages and stdin chunks that reach the process.
MessageNames == {"job", "task", "report", "alien", "publish", "unknown"}
MessageData == {"d1", "d2"}
Chunks == {"exit", "hello"}
\* Those that reach the process in Spec, where start() and exit() take the room.
SpecMessages == {<<"job", "d1">>, <<"unknown", "d1">>}
SpecChunks == {"exit"}

\* Arguments of the calls of Micro.exit the program makes itself.
ExitCalls == { <<0, "SIGTERM">>, <<3, "SIGINT">> }

\* The handlers of process-level errors the service class defines.
HandlerChoices == { {}, {"onUnhandledException"}, {"onUnhandledRejection"} }

\* The programs of the model, <<configuration, handlers, bindings>>: every
\* configuration and every choice of handlers with the bindings, and a program
\* without bindings.
Programs ==
    {<<c, {}, b>> : c \in Configs, b \in BindingTables \ {{}}}
      \cup {<<DefaultConfig, h, b>> : h \in HandlerChoices, b \in BindingTables \ {{}}}
      \cup {<<DefaultConfig, {}, {}>>}

\* The classes start() constructs that define the optional hooks: none or all.
HookChoices(n) == { {}, {ServiceUnit} \cup Range(SubInstances(n)) }

\* Micro.plugin is called with a registered instance or with the next new one.
Registrable ==
    Range(_plugins) \cup (IF Len(_plugins) < MaxPlugins
                           THEN {<<"plugin", Len(_plugins) + 1>>} ELSE {})

FreshHealth ==
    /\ _lastHealthState = Snapshot(FALSE, FALSE, FALSE)
    /\ _isHealthy = FALSE
    /\ writes = 0
    /\ writing = <<>>
    /\ file = <<>>
    /\ newState = Snapshot(TRUE, TRUE, TRUE)
    /\ ticked = FALSE
    /\ lastWritten = Snapshot(FALSE, FALSE, FALSE)

\* The process after its modules were loaded, before Micro.start is called.
Init ==
    /\ status = "INIT"
    /\ \E program \in Programs :
          /\ serviceConfig = program[1]
          /\ handlers = program[2]
          /\ processMsgsListners = program[3]
    /\ isMaster \in (IF serviceConfig.workers = 0 THEN {TRUE} ELSE BOOLEAN)
    /\ _plugins = <<>>
    /\ _service = Undefined
    /\ _subServicesList = <<>>
    /\ hooks = {}
    /\ health = [u \in Units |-> IF u \in PluginUnits THEN PluginDefault ELSE AllUndefined]
    /\ pc = "idle"
    /\ idx = 1
    /\ initState = [u \in Units |-> "none"]
    /\ failedAt = "none"
    /\ readyTrace = <<>>
    /\ proc = "running"
    /\ exitCode = -1
    /\ exitArgs = <<>>
    /\ exits = 0
    /\ exitTrace = <<>>
    /\ hookThrew = FALSE
    /\ event = <<>>
    /\ lastCalls = <<>>
    /\ listeners = {}
    /\ workersManager = FALSE
    /\ timers = 0
    /\ delay = 0
    /\ cwd = AppDir
    /\ cli = <<>>
    /\ cluster = NoCluster
    /\ FreshHealth

StartSteps ==
    \/ PluginInit
    \/ \E ok \in BOOLEAN : PluginSettled(ok)
    \/ ServiceInit
    \/ \E ok \in BOOLEAN : ServiceSettled(ok)
    \/ SubInit
    \/ \E ok \in BOOLEAN : SubSettled(ok)
    \/ MessageListen
    \/ PluginReady
    \/ SetLive
    \/ ServiceReady
    \/ SubReady
    \/ StdinListen
    \/ StartHealth

Next ==
    \/ \E p \in Registrable, h \in BOOLEAN : Plugin(p, h)
    \/ \E n \in 0..MaxSubs : \E hooked \in HookChoices(n) : Start(n, hooked)
    \/ StartSteps
    \/ \E call \in ExitCalls : ExitCall(call[1], call[2])
    \/ \E signal \in Signals : OnSignal(signal)
    \/ OnUncaughtException
    \/ OnUnhandledRejection
    \/ \E msg \in SpecMessages : OnMessage(msg[1], msg[2], FALSE)
    \/ \E chunk \in SpecChunks : OnStdin(chunk)
    \/ OnStdinEnd
    \/ UpdateHealthState
    \/ \E e \in BOOLEAN : WriteCallback(e)

Spec == Init /\ [][Next]_vars

\* The health loop of a worker whose start() has completed with health checking
\* enabled: the first timeout is pending and the units assign their health
\* fields at any time.
HealthInit ==
    /\ status = "LIVE"
    /\ serviceConfig = DefaultConfig
    /\ isMaster = TRUE
    /\ handlers = {}
    /\ processMsgsListners = {}
    /\ \E n \in 0..HealthPlugins : _plugins = PluginInstances(n)
    /\ _service = ServiceUnit
    /\ \E n \in 0..HealthSubs : _subServicesList = SubInstances(n)
    /\ hooks = {}
    /\ health \in [Units -> UnitHealth]
    /\ \A u \in Units : u \notin Range(_plugins) \cup {_service} \cup Range(_subServicesList)
                          => health[u] = AllUndefined
    /\ pc = "done"
    /\ idx = Len(_subServicesList) + 1
    /\ initState = [u \in Units |-> IF u \in Range(_plugins) THEN "settled" ELSE "none"]
    /\ failedAt = "none"
    /\ readyTrace = SelectSeq(_plugins \o <<_service>> \o _subServicesList, IsHooked)
    /\ proc = "running"
    /\ exitCode = -1
    /\ exitArgs = <<>>
    /\ exits = 0
    /\ exitTrace = <<>>
    /\ hookThrew = FALSE
    /\ event = <<>>
    /\ lastCalls = <<>>
    /\ listeners = {"signals", "stdin"}
    /\ workersManager = FALSE
    /\ timers = 1
    /\ delay = 1000
    /\ cwd = AppDir
    /\ cli = <<>>
    /\ cluster = NoCluster
    /\ FreshHealth

HealthNext ==
    \/ \E u \in Units, h \in UnitHealth : SetHealth(u, h)
    \/ UpdateHealthState
    \/ \E e \in BOOLEAN : WriteCallback(e)
    \/ \E signal \in Signals : OnSignal(signal)

HealthSpec == HealthInit /\ [][HealthNext]_vars

\* The health file and its reader: a worker whose start() has completed with
\* health checking enabled, in one of two working directories, and runs of the
\* health-check CLI with any argument, HEALTH_CHECK_DIR and working directory.
ServiceDirs == {AppDir, <<"srv">>}
CliArgs == {"", "ready", "LIVE", "Healthy", "constructor", "foo"}
CliEnvDirs == {RelPath(<<>>), AbsPath(AppDir), AbsPath(<<"health">>)}
CliDirs == {AppDir, <<"tmp">>}

CliInit ==
    /\ status = "LIVE"
    /\ serviceConfig = DefaultConfig
    /\ isMaster = TRUE
    /\ handlers = {}
    /\ processMsgsListners = {}
    /\ _plugins = <<>>
    /\ _service = ServiceUnit
    /\ _subServicesList = <<>>
    /\ hooks = {}
    /\ \E h \in UnitHealth :
          health = [u \in Units |-> IF u = ServiceUnit THEN h ELSE AllUndefined]
    /\ pc = "done"
    /\ idx = 1
    /\ initState = [u \in Units |-> "none"]
    /\ failedAt = "none"
    /\ readyTrace = SelectSeq(_plugins \o <<_service>> \o _subServicesList, IsHooked)
    /\ proc = "running"
    /\ exitCode = -1
    /\ exitArgs = <<>>
    /\ exits = 0
    /\ exitTrace = <<>>
    /\ hookThrew = FALSE
    /\ event = <<>>
    /\ lastCalls = <<>>
    /\ listeners = {"signals", "stdin"}
    /\ workersManager = FALSE
    /\ timers = 1
    /\ delay = 1000
    /\ cwd \in ServiceDirs
    /\ cli = <<>>
    /\ cluster = NoCluster
    /\ FreshHealth

CliNext ==
    \/ UpdateHealthState
    \/ \E e \in BOOLEAN : WriteCallback(e)
    \/ \E arg \in CliArgs, dir \in CliEnvDirs, cliCwd \in CliDirs :
          HealthCheck(arg, dir, cliCwd)

CliSpec == CliInit /\ [][CliNext]_vars

\* A cluster of ClusterWorkers workers, seen from its master after start():
\* the workers send messages with and without the optional arguments, the
\* master relays them, the workers receive them.
DataArgs == {"undefined", "d1"}
TargetArgs == {"undefined", "all", "others"}

ClusterInit ==
    /\ status = "INIT"
    /\ serviceConfig = [DefaultConfig EXCEPT !.workers = ClusterWorkers]
    /\ isMaster = TRUE
    /\ handlers = {}
    /\ processMsgsListners \in BindingTables \ {{}}
    /\ _plugins = <<>>
    /\ _service = Undefined
    /\ _subServicesList = <<>>
    /\ hooks = {}
    /\ health = [u \in Units |-> IF u \in PluginUnits THEN PluginDefault ELSE AllUndefined]
    /\ pc = "master"
    /\ idx = 1
    /\ initState = [u \in Units |-> "none"]
    /\ failedAt = "none"
    /\ readyTrace = <<>>
    /\ proc = "running"
    /\ exitCode = -1
    /\ exitArgs = <<>>
    /\ exits = 0
    /\ exitTrace = <<>>
    /\ hookThrew = FALSE
    /\ event = <<>>
    /\ lastCalls = <<>>
    /\ listeners = {}
    /\ workersManager = TRUE
    /\ timers = 0
    /\ delay = 0
    /\ cwd = AppDir
    /\ cli = <<>>
    /\ cluster = [channel |-> <<>>, inbox |-> [w \in Workers |-> <<>>], last |-> <<>>]
    /\ FreshHealth

ClusterNext ==
    \/ \E w \in Workers, data \in DataArgs, target \in TargetArgs :
          message(w, "job", data, target)
    \/ Broadcast
    \/ \E w \in Workers : Receive(w)

ClusterSpec == ClusterInit /\ [][ClusterNext]_vars

\* The registrations a program makes before it calls start(): any of
\* PluginPool instances, in any order, any number of times.
PluginNext ==
    \E i \in 1..PluginPool, h \in BOOLEAN : Plugin(<<"plugin", i>>, h)

PluginSpec == Init /\ [][PluginNext]_vars

\* The listeners of a worker whose start() has completed: any program, the
\* plugins and subservices running, any choice of the units that define the
\* optional hooks; messages and stdin input arrive.
DispatchInit ==
    /\ status = "LIVE"
    /\ \E program \in Programs :
          /\ serviceConfig = program[1]
          /\ handlers = program[2]
          /\ processMsgsListners = program[3]
    /\ isMaster = (serviceConfig.workers = 0)
    /\ \E n \in 0..DispatchPlugins : _plugins = PluginInstances(n)
    /\ _service = ServiceUnit
    /\ \E n \in 0..DispatchSubs : _subServicesList = SubInstances(n)
    /\ hooks \in SUBSET (Range(_plugins) \cup {_service} \cup Range(_subServicesList))
    /\ health = [u \in Units |-> IF u \in PluginUnits THEN PluginDefault ELSE AllUndefined]
    /\ pc = "done"
    /\ idx = Len(_subServicesList) + 1
    /\ initState = [u \in Units |->
                      IF u \in Range(_plugins) \/ u \in hooks THEN "settled" ELSE "none"]
    /\ failedAt = "none"
    /\ readyTrace = SelectSeq(_plugins \o <<_service>> \o _subServicesList, IsHooked)
    /\ proc = "running"
    /\ exitCode = -1
    /\ exitArgs = <<>>
    /\ exits = 0
    /\ exitTrace = <<>>
    /\ hookThrew = FALSE
    /\ event = <<>>
    /\ lastCalls = <<>>
    /\ listeners = {"signals"}
                     \cup (IF processMsgsListners # {} THEN {"message"} ELSE {})
                     \cup (IF serviceConfig.stdin THEN {"stdin"} ELSE {})
    /\ workersManager = FALSE
    /\ timers = (IF serviceConfig.healthCheck THEN 1 ELSE 0)
    /\ delay = (IF serviceConfig.healthCheck THEN 1000 ELSE 0)
    /\ cwd = AppDir
    /\ cli = <<>>
    /\ cluster = NoCluster
    /\ FreshHealth

DispatchNext ==
    \/ \E name \in MessageNames, data \in MessageData, handlerThrows \in BOOLEAN :
          OnMessage(name, data, handlerThrows)
    \/ \E chunk \in Chunks : OnStdin(chunk)
    \/ OnStdinEnd

DispatchSpec == DispatchInit /\ [][DispatchNext]_vars

-----------------------------------------------------------------------------
\* Properties of the health loop (HealthSpec)

\* The units _updateHealthState reads
Polled == Range(_plugins) \cup {_service} \cup Range(_subServicesList)

\* Only a run of _updateHealthState consumes a timeout.
IsTick == timers' < timers

AllTrue == Snapshot(TRUE, TRUE, TRUE)
Degraded(st) == ~st.healthy \/ ~st.ready \/ ~st.live
HealthLoopOn == proc = "running" /\ pc = "done" /\ serviceConfig.healthCheck

\* C1: on every health tick each field of the computed snapshot is the AND of
\* that field over every plugin, the main service and every subservice, a
\* field left undefined counting as true.
C1_SnapshotIsConjunction ==
    [][IsTick =>
         newState' = [healthy |-> \A u \in Polled : health[u].healthy \in {"true", "undefined"},
                      ready   |-> \A u \in Polled : health[u].ready \in {"true", "undefined"},
                      live    |-> \A u \in Polled : health[u].live \in {"true", "undefined"}]]_vars

\* A tick has just computed {healthy: true, ready: false, live: true} from units
\* of which one leaves live undefined and one has ready false.
C1_Witness ==
    /\ ticked /\ writes = 1
    /\ newState = Snapshot(TRUE, FALSE, TRUE)
    /\ writing = JSON_stringify(newState)
    /\ \E u \in Polled : health[u].live = "undefined"
    /\ \E u \in Polled : health[u].ready = "false"

\* C2: a health tick writes the health file if and only if the snapshot it
\* computed differs from the snapshot written last (initially all false).
C2_WriteIffChanged ==
    [][IsTick => ((writes' > writes) <=> Differs(newState', lastWritten))]_vars

\* C3: while the process is alive and health checking is on, after every tick
\* a write is in flight or the next tick is scheduled.
C3_LoopNeverStops == HealthLoopOn => timers + writes > 0

\* C4: the next tick is scheduled 10000 ms ahead when the tick computed
\* {true, true, true} and 1000 ms ahead for every other snapshot.
C4_DelayFollowsSnapshot ==
    (ticked /\ timers > 0) => delay = (IF newState = AllTrue THEN 10000 ELSE 1000)

\* C5: a degraded aggregate that persists reaches the health file.  Once no
\* tick is pending and no write is in flight nothing writes the file any more,
\* so in such a state the file must already hold the degraded aggregate.
C5_DegradedReachesFile ==
    (HealthLoopOn /\ timers = 0 /\ writes = 0 /\ Degraded(ComputeNewState))
        => file = <<JSON_stringify(ComputeNewState)>>

\* C6: health ticks never overlap: at most one write is in flight, at most one
\* tick is pending, and no tick is pending while a write is in flight.
C6_OneTickAtATime == writes <= 1 /\ timers <= 1 /\ ~(writes = 1 /\ timers = 1)

\* A tick has started a write and its successor is not scheduled yet.
C6_Witness == ticked /\ writes = 1 /\ timers = 0 /\ proc = "running"

-----------------------------------------------------------------------------
\* Properties of start() and exit() (Spec)

PositionIn(s, u) == CHOOSE i \in 1..Len(s) : s[i] = u

\* The units whose init must have settled when the init of unit u begins: the
\* plugins registered before a plugin, every registered plugin for the main
\* service, the main service and the subservices before it for a subservice.
InitBefore(u) ==
    CASE u \in PluginUnits ->
           {_plugins[j] : j \in 1..(PositionIn(_plugins, u) - 1)}
      [] u = ServiceUnit -> Range(_plugins)
      [] OTHER ->
           {_service}
             \cup {_subServicesList[j] : j \in 1..(PositionIn(_subServicesList, u) - 1)}

DefinesInit(u) == u \in PluginUnits \/ u \in hooks

\* C7: when the init of a unit begins, the init of every unit before it in the
\* order plugins (registration order), main service, subservices (array order)
\* has settled.
C7_InitInOrder ==
    [][\A u \in Units :
         (initState[u] = "none" /\ initState'[u] # "none") =>
            \A v \in InitBefore(u) :
               IF DefinesInit(v) THEN initState[v] = "settled" ELSE initState[v] = "none"]_vars

\* The second subservice is being initialised after two plugins, the service
\* and the first subservice, which all returned promises.
C7_Witness ==
    /\ pc = "subAwait" /\ idx = 2
    /\ Len(_plugins) = 2
    /\ initState[_subServicesList[2]] = "running"
    /\ \A v \in Range(_plugins) \cup InitBefore(_subServicesList[2]) : initState[v] = "settled"

\* C8: the failure of an init is caught for its unit and start() goes on: a
\* unit whose init threw does not leave start() rejected.
C8_InitFailureContinues ==
    \A u \in Units : initState[u] = "threw" => pc # "rejected"

StatusRank(st) == CASE st = "INIT" -> 0 [] st = "LIVE" -> 1 [] st = "EXIT" -> 2

\* C9: status only moves forward along INIT -> LIVE -> EXIT.
C9_StatusMonotonic == [][StatusRank(status') >= StatusRank(status)]_vars

PluginReadyRunning ==
    pc = "pluginReady" /\ idx <= Len(_plugins) /\ _plugins[idx] \in hooks
ServiceReadyRunning == pc = "serviceReady" /\ _service \in hooks
SubReadyRunning ==
    pc = "subReady" /\ idx <= Len(_subServicesList) /\ _subServicesList[idx] \in hooks

\* C10 as claimed: while the onReady of any unit runs, status is not LIVE yet.
C10_LiveAfterAllReady ==
    (PluginReadyRunning \/ ServiceReadyRunning \/ SubReadyRunning) => status # "LIVE"

\* C10 amended: status is set to LIVE after the onReady of every plugin and
\* before the onReady of the main service: it is not LIVE while the onReady of
\* a plugin runs, it is LIVE when the onReady of the main service is invoked,
\* and the subservices' onReady run after the assignment.
C10_LiveBeforeServiceReady ==
    /\ PluginReadyRunning => status # "LIVE"
    /\ ServiceReadyRunning => status = "LIVE"
    /\ SubReadyRunning => status # "INIT"

\* The onReady of the main service is invoked after the onReady of a plugin.
C10_Witness ==
    /\ ServiceReadyRunning
    /\ status = "LIVE"
    /\ _plugins # <<>> /\ _plugins[1] \in hooks

-----------------------------------------------------------------------------
\* Properties of exit() and of the process-level listeners (Spec)

\* The units that define onExit, in the order plugins, main service, subservices
ExitUnits == SelectSeq(_plugins \o <<_service>> \o _subServicesList, IsHooked)

\* onExit(code, signal) on each of them
OnExitCalls(code, signal) ==
    [i \in 1..Len(ExitUnits) |-> <<ExitUnits[i], "onExit", <<code, signal>>>>]

\* The step is the turn of the event loop in which the listeners run for e.
Turn(e) == AtEventLoop /\ event' = e

\* C11: every call exit(code, signal) in which no onExit throws, in whatever
\* state the process is, sets status to EXIT, invokes onExit(code, signal) on
\* each plugin, the main service and each subservice in this order, and
\* terminates the process with the exit code code.
C11_ExitTerminates ==
    [][\A call \in ExitCalls :
          (Turn(<<"exit", call[1], call[2]>>) /\ ~hookThrew') =>
              /\ status' = "EXIT"
              /\ lastCalls' = OnExitCalls(call[1], call[2])
              /\ proc' = "exited"
              /\ exitCode' = call[1]]_vars

\* start() has been called in a process that runs the lifecycle itself.
StartedWorker == pc \notin {"idle", "master"}

\* C12 as claimed: a termination signal delivered after start() was called
\* terminates the process with code 0.
C12_SignalTerminates ==
    [][\A signal \in Signals :
          (Turn(<<"signal", signal>>) /\ StartedWorker) => (proc' = "exited" /\ exitCode' = 0)]_vars

\* C12 amended: a termination signal delivered after start() was called
\* triggers exit(0, signal) with the signal received: status becomes EXIT and
\* the first onExit gets (0, signal); unless an onExit throws, every onExit
\* gets (0, signal) and the process terminates with code 0.
C12_SignalCallsExit ==
    [][\A signal \in Signals :
          (Turn(<<"signal", signal>>) /\ StartedWorker) =>
              /\ status' = "EXIT"
              /\ exits' > exits
              /\ ExitUnits # <<>> => Head(lastCalls') = <<Head(ExitUnits), "onExit", <<0, signal>>>>
              /\ ~hookThrew' =>
                    /\ lastCalls' = OnExitCalls(0, signal)
                    /\ exitArgs' = <<0, signal>>
                    /\ proc' = "exited"
                    /\ exitCode' = 0]_vars

\* SIGHUP arrived while start() awaited the onInit of the service: the onExit
\* hooks got (0, "SIGHUP") and the process exited with code 0.
C12_Witness ==
    /\ pc = "serviceAwait"
    /\ proc = "exited" /\ exitCode = 0
    /\ exitArgs = <<0, "SIGHUP">>
    /\ lastCalls # <<>>
    /\ lastCalls = OnExitCalls(0, "SIGHUP")

ServiceDefines(handler) == _service # Undefined /\ handler \in handlers
ExitOneCalled == exits' > exits /\ exitArgs' = <<1, "SIGTERM">>
OnlyHandlerCalled(handler, arg) ==
    /\ lastCalls' = <<<<_service, handler, arg>>>>
    /\ UNCHANGED exitVars

\* C13 as claimed: on an uncaught exception or an unhandled rejection the
\* matching handler of the running service is invoked and exit is not called,
\* and without that handler exit(1, "SIGTERM") is performed.
C13_HandlerOrExit ==
    [][/\ Turn(<<"uncaughtException">>) =>
            IF ServiceDefines("onUnhandledException")
            THEN OnlyHandlerCalled("onUnhandledException", "err")
            ELSE ExitOneCalled
       /\ Turn(<<"unhandledRejection">>) =>
            IF ServiceDefines("onUnhandledRejection")
            THEN OnlyHandlerCalled("onUnhandledRejection", "reason")
            ELSE ExitOneCalled]_vars

\* C13 amended: the matching handler of the running service is invoked and
\* exit is not called; without that handler exit(1, "SIGTERM") is performed if
\* the option exitOnUnhandledException (exitOnInhandledRejection for a
\* rejection) is true, and nothing is done if it is false.
C13_HandlerOrConfiguredExit ==
    [][/\ Turn(<<"uncaughtException">>) =>
            IF ServiceDefines("onUnhandledException")
            THEN OnlyHandlerCalled("onUnhandledException", "err")
            ELSE IF serviceConfig.exitOnUnhandledException
                 THEN ExitOneCalled
                 ELSE lastCalls' = <<>> /\ UNCHANGED exitVars
       /\ Turn(<<"unhandledRejection">>) =>
            IF ServiceDefines("onUnhandledRejection")
            THEN OnlyHandlerCalled("onUnhandledRejection", "reason")
            ELSE IF serviceConfig.exitOnInhandledRejection
                 THEN ExitOneCalled
                 ELSE lastCalls' = <<>> /\ UNCHANGED exitVars]_vars

\* The service's onUnhandledException has handled an exception: exit was not
\* called and the process runs on.
C13_Witness ==
    /\ lastCalls = <<<<ServiceUnit, "onUnhandledException", "err">>>>
    /\ exits = 0
    /\ proc = "running"
    /\ status = "LIVE"

-----------------------------------------------------------------------------
\* Properties of the message and stdin listeners (DispatchSpec)

IsHandlerCall(c) == c[2] \notin {"onExit", "onUnhandledException", "onUnhandledRejection"}
\* The handlers and stdin hooks among the methods invoked
HandlerCalls(calls) == SelectSeq(calls, IsHandlerCall)

\* C14: a message whose name has no binding is dropped: no error is raised, no
\* method of a unit is invoked and the state does not change.
C14_UnknownDropped ==
    [][\A data \in MessageData :
          (Turn(<<"message", "unknown", data>>) /\ ~IsBound("unknown")) =>
              /\ lastCalls' = <<>>
              /\ UNCHANGED <<lifeVars, healthVars>>]_vars

\* C15: a message named "publish" invokes no handler, with a binding
\* registered under the name "publish" too.
C15_PublishIgnored ==
    [][\A data \in MessageData :
          Turn(<<"message", "publish", data>>) =>
              /\ lastCalls' = <<>>
              /\ UNCHANGED <<lifeVars, healthVars>>]_vars

\* A "publish" message has reached the listener of a program that binds a
\* method of the service to "publish"; nothing was invoked.
C15_Witness ==
    /\ event = <<"message", "publish", "d2">>
    /\ IsBound("publish") /\ Options("publish").key \in MethodsOf(_service)
    /\ lastCalls = <<>>
    /\ proc = "running"

\* The instance the claim resolves an owner class to
Resolved(owner) ==
    IF owner = ClassOf(ServiceUnit)
    THEN ServiceUnit
    ELSE IF \E u \in Range(_subServicesList) : ClassOf(u) = owner
         THEN CHOOSE u \in Range(_subServicesList) : ClassOf(u) = owner
         ELSE ServiceUnit

\* C16: for a message with a binding {owner, method} the method is invoked with
\* the data of the message on the main service if the owner is its class, on
\* the running subservice of that class if the owner is a subservice class, on
\* the main service otherwise; only if the instance has the method, and once.
C16_DispatchToOwner ==
    [][\A name \in MessageNames \ {"publish"}, data \in MessageData :
          (Turn(<<"message", name, data>>) /\ IsBound(name)) =>
              LET binding == Options(name)
                  target == Resolved(binding.service)
              IN  HandlerCalls(lastCalls') =
                     IF binding.key \in MethodsOf(target)
                     THEN <<<<target, binding.key, data>>>>
                     ELSE <<>>]_vars

\* The message bound to the class of the second subservice was dispatched to
\* its instance.
C16_Witness ==
    /\ event = <<"message", "report", "d2">>
    /\ lastCalls = <<<<<<"sub", 2>>, "onTask", "d2">>>>
    /\ Len(_subServicesList) = 2

\* C17: with stdin enabled a chunk that is "exit" makes the process call
\* exit(0), so that it terminates with code 0 unless an onExit throws, and the
\* chunk is not forwarded to any onStdin.
C17_StdinExit ==
    [][Turn(<<"stdin", "exit">>) =>
          /\ exits' > exits
          /\ HandlerCalls(lastCalls') = <<>>
          /\ ~hookThrew' => (proc' = "exited" /\ exitCode' = 0)]_vars

-----------------------------------------------------------------------------
\* Properties of the listeners during start() (Spec)

\* Every init that start() calls has been called and has settled: start() is
\* past its init phases and no init is pending or threw.  (The init of a plugin
\* registered after the plugin phase is never called.)
InitsSettled ==
    /\ _service # Undefined
    /\ pc \in {"done", "rejected"} /\ failedAt # "init"
    /\ \A u \in Units : initState[u] \in {"none", "settled"}
    /\ \A u \in {_service} \cup Range(_subServicesList) :
          DefinesInit(u) => initState[u] = "settled"

\* C18: a handler bound to a worker message, an onStdin or an onStdinEnd is
\* invoked only when the init of every plugin, the onInit of the main service
\* and the onInit of every subservice have settled.
C18_HandlersAfterInits ==
    HandlerCalls(lastCalls) # <<>> => InitsSettled

\* The handler bound to "job" was invoked in a worker with a plugin and a
\* subservice whose inits returned promises.
C18_Witness ==
    /\ event = <<"message", "job", "d1">>
    /\ lastCalls = <<<<ServiceUnit, "onJob", "d1">>>>
    /\ _plugins # <<>> /\ _subServicesList # <<>>
    /\ _subServicesList[1] \in hooks
    /\ InitsSettled

\* C19: while the onReady of any unit runs, the 'message' listener (if a
\* binding is registered) and the stdin listeners (if stdin is enabled) are
\* installed.
C19_ListenersBeforeReady ==
    (PluginReadyRunning \/ ServiceReadyRunning \/ SubReadyRunning) =>
        /\ processMsgsListners # {} => "message" \in listeners
        /\ serviceConfig.stdin => "stdin" \in listeners

AwaitPcs == {"pluginAwait", "serviceAwait", "subAwait"}
InterruptingEvents == {<<"signal", signal>> : signal \in Signals} \cup {<<"uncaughtException">>}

-----------------------------------------------------------------------------
\* Properties of a failing exit() and of the fan-out order (Spec)

IsPrefix(s, t) == Len(s) <= Len(t) /\ SubSeq(t, 1, Len(s)) = s

\* The calls exit(code, signal) made to the program's own exit() and by the
\* signal listeners, as <<event, code, signal>>
DirectExits ==
    {<<<<"exit", call[1], call[2]>>, call[1], call[2]>> : call \in ExitCalls}
      \cup {<<<<"signal", signal>>, 0, signal>> : signal \in Signals}

\* The onExit(code, signal) invocations among the calls
ExitCallsWith(calls, code, signal) ==
    SelectSeq(calls, LAMBDA c : c[2] = "onExit" /\ c[3] = <<code, signal>>)

\* C21: when an onExit throws during exit(code, signal), status is EXIT, the
\* hooks this exit() invoked are those up to the one that threw, in the order
\* of exit(), the later ones are not invoked by it, and the process is not
\* terminated with the code of this call.
C21_ThrowAbortsExit ==
    [][\A d \in DirectExits :
          (Turn(d[1]) /\ _service # Undefined /\ hookThrew') =>
              LET first == ExitCallsWith(lastCalls', d[2], d[3])
              IN  /\ status' = "EXIT"
                  /\ first # <<>>
                  /\ IsPrefix(first, OnExitCalls(d[2], d[3]))
                  /\ exitArgs' = <<d[2], d[3]>> => proc' = "running"
                  /\ proc' = "exited" => exitCode' \in {1, 7}]_vars

\* SIGTERM reached a worker in which a plugin and the service define onExit;
\* the onExit of the plugin threw: the onExit of the service was not invoked
\* and the process runs on with status EXIT.
C21_Witness ==
    /\ event = <<"signal", "SIGTERM">>
    /\ hookThrew
    /\ Len(OnExitCalls(0, "SIGTERM")) >= 2
    /\ ExitCallsWith(lastCalls, 0, "SIGTERM") = <<OnExitCalls(0, "SIGTERM")[1]>>
    /\ status = "EXIT" /\ proc = "running"
    /\ exitArgs = <<0, "SIGTERM">>

-----------------------------------------------------------------------------
\* Properties of the health-check CLI and of the health file (CliSpec)

\* The text is that of a JSON object in which the field is true
FieldTrueIn(text, field) ==
    /\ text # EmptyText /\ text # NullText /\ text # TruncatedText
    /\ \E i \in 1..Len(text) : text[i] = <<field, TRUE>>

\* C22: the CLI exits with code 0 if the file was read, its content parses as
\* JSON and the requested field, the lower-cased argument or healthy, is true
\* in it, and with code 1 in every other case.
C22_ExitCodeIffFieldTrue ==
    cli # <<>> =>
        /\ cli.code \in {0, 1}
        /\ cli.code = 0 <=> (~cli.read.err /\ FieldTrueIn(cli.read.data, cli.check))

\* C23: the file the CLI reads is the file the service writes, for every
\* HEALTH_CHECK_DIR and every working directory.
C23_SameFile ==
    cli # <<>> => cli.path = WrittenFile

-----------------------------------------------------------------------------
\* Properties of start() in a cluster (Spec)

InCluster == isMaster /\ serviceConfig.workers # 0

\* C24: start() in the cluster master with a worker count other than 0 only
\* constructs the WorkersManager: the master has no service or subservice
\* instance, runs no init or onReady, starts no health loop and its status is
\* INIT as long as exit() is not called and never LIVE.  In every other
\* process start() constructs the service and runs the lifecycle itself.
C24_MasterOnlySupervises ==
    [][/\ pc' = "master" =>
            /\ InCluster /\ workersManager'
            /\ _service' = Undefined /\ _subServicesList' = <<>>
            /\ \A u \in Units : initState'[u] = "none"
            /\ timers' = 0 /\ writes' = 0 /\ file' = <<>>
            /\ status' # "LIVE"
            /\ exits' = 0 => status' = "INIT"
       /\ pc = "master" => pc' = "master"
       /\ (pc = "idle" /\ pc' # "idle") =>
            IF InCluster
            THEN pc' = "master"
            ELSE /\ pc' = "pluginInit"
                 /\ _service' = ServiceUnit
                 /\ ~workersManager']_vars

\* start() has returned in the master of a cluster in which a plugin was
\* registered: the WorkersManager exists, nothing else was done.
C24_Witness ==
    /\ pc = "master" /\ workersManager
    /\ serviceConfig.workers = 2 /\ isMaster
    /\ _plugins # <<>> /\ initState[_plugins[1]] = "none"
    /\ _service = Undefined
    /\ status = "INIT" /\ timers = 0

-----------------------------------------------------------------------------
\* Properties of the messages between workers (ClusterSpec)

Relayed == cluster.channel # <<>> /\ cluster'.channel = Tail(cluster.channel)
Sent == Len(cluster'.channel) > Len(cluster.channel)

\* C25: an envelope worker w sent with target "others" is delivered to every
\* worker but w and not to w, one sent with target "all" to every worker, w
\* included; message(name) with data and target omitted sends data null and
\* target "others".
C25_BroadcastTargets ==
    [][/\ Relayed =>
            LET sent == Head(cluster.channel)
            IN  \A w \in Workers :
                   cluster'.inbox[w] =
                      IF sent.envelope.target = "all"
                           \/ (sent.envelope.target = "others" /\ w # sent.from)
                      THEN Append(cluster.inbox[w], sent.envelope)
                      ELSE cluster.inbox[w]
       /\ Sent =>
            LET sent == cluster'.channel[Len(cluster'.channel)]
            IN  /\ sent.envelope.message = sent.args[1]
                /\ sent.envelope.data = (IF sent.args[2] = "undefined" THEN "null" ELSE sent.args[2])
                /\ sent.envelope.target =
                      (IF sent.args[3] = "undefined" THEN "others" ELSE sent.args[3])]_vars

\* Worker 1 called message("job"): the envelope with data null and target
\* "others" was delivered to workers 2 and 3 and not to worker 1.
C25_Witness ==
    LET envelope == [message |-> "job", data |-> "null", target |-> "others"]
    IN  /\ cluster.last = <<1, envelope>>
        /\ cluster.inbox[1] = <<>>
        /\ \A w \in Workers \ {1} : cluster.inbox[w] = <<envelope>>

-----------------------------------------------------------------------------
\* Properties of the fan-out of lifecycle events (Spec)

\* The order of the claim: plugins in registration order, the main service,
\* the subservices in array order; the units among them that define the hooks
FanOutOrder == _plugins \o <<_service>> \o _subServicesList
FanOut == SelectSeq(FanOutOrder, IsHooked)
FanOutCalls(method, arg) == [i \in 1..Len(FanOut) |-> <<FanOut[i], method, arg>>]

CallsOf(calls, method) == SelectSeq(calls, LAMBDA c : c[2] = method)

\* C26 as claimed: the onStdinEnd and onExit of every unit that defines them
\* are invoked once per event, in the order plugins, main service,
\* subservices.
C26_FanOutToAll ==
    [][/\ Turn(<<"end">>) =>
            CallsOf(lastCalls', "onStdinEnd") = FanOutCalls("onStdinEnd", "none")
       /\ \A d \in DirectExits :
            (Turn(d[1]) /\ _service # Undefined) =>
                ExitCallsWith(lastCalls', d[2], d[3]) = FanOutCalls("onExit", <<d[2], d[3]>>)]_vars

\* A hook of the turn threw: the exception reached the 'uncaughtException'
\* listener, which called the handler of the service or exit(), or did
\* nothing, which it does only without handler and with the option off.
MayHaveThrown ==
    \/ CallsOf(lastCalls', "onUnhandledException") # <<>>
    \/ exits' > exits
    \/ ("onUnhandledException" \notin handlers /\ ~serviceConfig.exitOnUnhandledException)

\* C26 amended: every fanned-out event is delivered in the order plugins, main
\* service, subservices to the units that define the hook, each at most once
\* per event; a hook that throws ends the delivery, and when none throws each
\* unit that defines the hook receives the event exactly once.
C26_FanOutInOrder ==
    [][/\ Turn(<<"end">>) =>
            LET calls == CallsOf(lastCalls', "onStdinEnd")
            IN  /\ IsPrefix(calls, FanOutCalls("onStdinEnd", "none"))
                /\ ~MayHaveThrown => calls = FanOutCalls("onStdinEnd", "none")
       /\ \A chunk \in Chunks :
            Turn(<<"stdin", chunk>>) =>
                LET calls == CallsOf(lastCalls', "onStdin")
                IN  /\ IsPrefix(calls, FanOutCalls("onStdin", chunk))
                    /\ ~MayHaveThrown => calls = FanOutCalls("onStdin", chunk)
       /\ \A d \in DirectExits :
            (Turn(d[1]) /\ _service # Undefined) =>
                LET calls == ExitCallsWith(lastCalls', d[2], d[3])
                IN  /\ IsPrefix(calls, FanOutCalls("onExit", <<d[2], d[3]>>))
                    /\ ~hookThrew' => calls = FanOutCalls("onExit", <<d[2], d[3]>>)
       /\ readyTrace' # readyTrace =>
            /\ IsPrefix(readyTrace', FanOut)
            /\ Len(readyTrace') = Len(readyTrace) + 1
       /\ (pc = "subReady" /\ pc' = "stdin") => readyTrace' = FanOut]_vars

\* The end of stdin was delivered to a plugin, the service and a subservice,
\* in this order, in a worker whose onReady hooks ran in the same order.
C26_Witness ==
    /\ event = <<"end">>
    /\ Len(_plugins) >= 1 /\ Len(_subServicesList) >= 1
    /\ lastCalls = <<<<_plugins[1], "onStdinEnd", "none">>,
                      <<_service, "onStdinEnd", "none">>,
                      <<_subServicesList[1], "onStdinEnd", "none">>>>
    /\ readyTrace = <<_plugins[1], _service, _subServicesList[1]>>

-----------------------------------------------------------------------------
\* Properties of repeated exits and of late plugins (Spec)

Occurrences(seq, u) == Cardinality({i \in 1..Len(seq) : seq[i] = u})

\* C27: over the lifetime of a process that has called start() the onExit of
\* each unit is invoked at most once.
C27_OnExitAtMostOnce ==
    _service # Undefined => \A u \in Units : Occurrences(exitTrace, u) <= 1

\* The plugin received an onStdin or onStdinEnd in the last turn
StdinDelivered(p) ==
    \E i \in 1..Len(lastCalls) :
        lastCalls[i][1] = p /\ lastCalls[i][2] \in {"onStdin", "onStdinEnd"}

\* C28: a plugin whose onReady was invoked, that received stdin input or that
\* a health tick polled had its init invoked by start() before.
C28_InitBeforeUse ==
    /\ [](\A p \in Range(_plugins) :
            (p \in Range(readyTrace) \/ StdinDelivered(p)) => initState[p] # "none")
    /\ [][IsTick => \A p \in Range(_plugins) : initState[p] # "none"]_vars

-----------------------------------------------------------------------------
\* Properties of Micro.plugin (PluginSpec)

\* C29: the plugin list holds each instance at most once; a call of
\* Micro.plugin appends an instance that is not in the list at its end and
\* leaves the list unchanged for an instance that is in it, so the list is in
\* the order of first registration.
C29_PluginsRegisteredOnce ==
    /\ [](\A u \in Units : Occurrences(_plugins, u) <= 1)
    /\ [][\/ _plugins' = _plugins
          \/ \E p \in PluginUnits \ Range(_plugins) : _plugins' = Append(_plugins, p)]_vars

\* The third, the first and the second instance were registered in this
\* order; every further registration finds its instance in the list.
C29_Witness ==
    _plugins = <<<<"plugin", 3>>, <<"plugin", 1>>, <<"plugin", 2>>>>

====
